---- MODULE Spec2Model ----
(***************************************************************************)
(* The WiredTiger ticket read/write lock of                                *)
(* src/third_party/wiredtiger/src/support/mtx_rw.c.                        *)
(*                                                                         *)
(* The lock is one 64-bit word l seen as four 16-bit fields (writers,      *)
(* readers, next, writers_active).  Every access of the shared word made   *)
(* by the code is one step of the model: a whole-word read, a 16-bit       *)
(* atomic add, a compare-and-swap of the whole word, a plain 16-bit load   *)
(* or store, the plain 32-bit store of the writers/readers pair.           *)
(* The reads that decide nothing (writers_active in __wt_readlock_spin), the *)
(* pauses, yields, sleeps, barriers and statistics change no state and are *)
(* not steps.  A lock lives from __wt_rwlock_init on; __wt_rwlock_destroy  *)
(* ends its life and is not modelled.                                      *)
(*                                                                         *)
(* issued, seq and granted are history variables: they record the order in *)
(* which tickets were handed out and acquires returned, and decide nothing;*)
(* cycled records that next came round to a number still in use.           *)
(* ticketMod is the modulus of the 16-bit fields; it never changes.        *)
(***************************************************************************)
EXTENDS Integers, FiniteSets, Sequences, TLC

\* ------------------------------------------------------------------ bounds
NumThreads == 3
MaxTickets == 4

\* The ticket fields are uint16_t: values wrap at 64K.
TicketWrap == 65536

\* The worked example of the file's header comment: three readers (tickets
\* 0, 1, 2) and one writer (ticket 3).
ExampleReaders == 3

Threads == 1 .. NumThreads
ExReaders == 1 .. ExampleReaders
ExWriter == ExampleReaders + 1
Procs == Threads \cup ExReaders \cup {ExWriter}

VARIABLES
    l,          \* the lock word: [writers, readers, next, writers_active]
    pc,         \* pc[t]: where thread t is in the lock's functions
    ticket,     \* ticket[t]: the local "ticket" (for the try calls: old.next)
    snap,       \* snap[t]: the local copy of the lock word ("old" / "new")
    ret,        \* ret[t]: what the last try call of t returned
    ticketMod,  \* the modulus of the ticket fields (2^16 in the code)
    issued,     \* history: how many tickets were handed out so far
    seq,        \* history: seq[t], the unwrapped number of t's ticket
    granted,    \* history: the unwrapped tickets whose acquire has returned
    cycled      \* history: the unwrapped tickets whose number was handed
                \* out again before their unlock completed, each with
                \* whether its request was still waiting at that moment

vars == <<l, pc, ticket, snap, ret, ticketMod, issued, seq, granted, cycled>>

ZeroWord == [writers |-> 0, readers |-> 0, next |-> 0, writers_active |-> 0]

\* uint16_t arithmetic
Inc16(x) == (x + 1) % ticketMod
Dec16(x) == (x + ticketMod - 1) % ticketMod

\* ------------------------------------------------------- thread positions
ReadWaiting  == {"r_wait", "r_inc", "r_store"}
WriteWaiting == {"w_active", "w_wait"}
ReadHeld     == {"r_held"}
WriteHeld    == {"w_held", "wu_snap", "wu_store"}
HasTicket    == ReadWaiting \cup WriteWaiting \cup ReadHeld \cup WriteHeld

HoldsRead(t)  == pc[t] \in ReadHeld
HoldsWrite(t) == pc[t] \in WriteHeld
Holds(t)      == HoldsRead(t) \/ HoldsWrite(t)

\* --------------------------------------------------------------- helpers
Goto(t, loc) == pc' = [pc EXCEPT ![t] = loc]

Local(t, tk, sn, rv) ==
    /\ ticket' = [ticket EXCEPT ![t] = tk]
    /\ snap' = [snap EXCEPT ![t] = sn]
    /\ ret' = [ret EXCEPT ![t] = rv]

TakeTicket(t) ==
    /\ issued' = issued + 1
    /\ seq' = [seq EXCEPT ![t] = issued]
    /\ cycled' = cycled \cup
                    {<<seq[u], pc[u] \in ReadWaiting \cup WriteWaiting>> :
                        u \in {v \in Procs \ {t} : /\ pc[v] \in HasTicket
                                                   /\ ticket[v] = l.next}}

Grant(t, s) == granted' = granted \cup {s}

Leave(t) == seq' = [seq EXCEPT ![t] = 0]

\* ------------------------------------------------------ __wt_rwlock_init
wt_rwlock_init == l = ZeroWord

\* ---------------------------------------------------- __wt_try_readlock
\* Faulty variants of the cheap test: the test left out (the CAS alone
\* decides), and a test of "nobody holds" (readers against writers) instead
\* of "nobody is ahead" (readers against next).
TryReadBusy_NoTest(old) == FALSE
TryReadBusy_Held(old) == old.readers # old.writers

\* The cheap test: TRUE when the call returns EBUSY without trying the CAS.
TryReadBusy(old) == old.readers # old.next

\* Faulty variant: the ticket is allocated, readers is not moved to it.
TryReadNew_NextOnly(old) == [old EXCEPT !.next = Inc16(old.next)]

\* The replacement lock value.
TryReadNew(old) ==
    [old EXCEPT !.readers = Inc16(old.next), !.next = Inc16(old.next)]

\* new = old = *l, and the test on the copy.
wt_try_readlock_snapshot(t) ==
    /\ pc[t] = "idle"
    /\ IF TryReadBusy(l)
         THEN /\ Goto(t, "idle")
              /\ Local(t, 0, ZeroWord, "try_read:EBUSY")
         ELSE /\ Goto(t, "tr_cas")
              /\ Local(t, 0, l, "none")
    /\ UNCHANGED <<l, ticketMod, issued, cycled, seq, granted>>

\* __wt_atomic_cas64(&l->u, old.u, new.u) ? 0 : EBUSY
wt_try_readlock_cas(t) ==
    /\ pc[t] = "tr_cas"
    /\ IF l = snap[t]
         THEN /\ l' = TryReadNew(snap[t])
              /\ Goto(t, "r_held")
              /\ Local(t, snap[t].next, ZeroWord, "try_read:0")
              /\ TakeTicket(t)
              /\ Grant(t, issued)
         ELSE /\ Goto(t, "idle")
              /\ Local(t, 0, ZeroWord, "try_read:EBUSY")
              /\ UNCHANGED <<l, issued, cycled, seq, granted>>
    /\ UNCHANGED ticketMod

\* ---------------------------------------------------- __wt_readlock_spin
\* while (__wt_try_readlock(session, l) != 0): the snapshot and the test of
\* the try.  After a failed try the thread reads writers_active and yields
\* or pauses: neither changes the lock, and the thread is back at the top of
\* the loop ("rs_try").
wt_readlock_spin_snapshot(t) ==
    /\ pc[t] \in {"idle", "rs_try"}
    /\ IF TryReadBusy(l)
         THEN /\ Goto(t, "rs_try")
              /\ Local(t, 0, ZeroWord, "none")
         ELSE /\ Goto(t, "rs_cas")
              /\ Local(t, 0, l, "none")
    /\ UNCHANGED <<l, ticketMod, issued, cycled, seq, granted>>

\* The CAS of the try; the loop ends when it succeeds.
wt_readlock_spin_cas(t) ==
    /\ pc[t] = "rs_cas"
    /\ IF l = snap[t]
         THEN /\ l' = TryReadNew(snap[t])
              /\ Goto(t, "r_held")
              /\ Local(t, snap[t].next, ZeroWord, "none")
              /\ TakeTicket(t)
              /\ Grant(t, issued)
         ELSE /\ Goto(t, "rs_try")
              /\ Local(t, 0, ZeroWord, "none")
              /\ UNCHANGED <<l, issued, cycled, seq, granted>>
    /\ UNCHANGED ticketMod

\* --------------------------------------------------------- __wt_readlock
\* ticket = __wt_atomic_fetch_add16(&l->s.next, 1)
wt_readlock_ticket(t) ==
    /\ pc[t] = "idle"
    /\ l' = [l EXCEPT !.next = Inc16(l.next)]
    /\ Goto(t, "r_wait")
    /\ Local(t, l.next, ZeroWord, "none")
    /\ TakeTicket(t)
    /\ UNCHANGED <<ticketMod, granted>>

\* Faulty variant: the reader waits on the writers' counter.
ReadServed_Writers(t) == ticket[t] = l.writers

\* The condition that ends the wait loop of __wt_readlock.
ReadServed(t) == ticket[t] = l.readers

\* for (pause_cnt = 0; ticket != l->s.readers;): the loop ends
wt_readlock_wait(t) ==
    /\ pc[t] = "r_wait"
    /\ ReadServed(t)
    /\ Goto(t, "r_inc")
    /\ UNCHANGED <<l, ticket, snap, ret, ticketMod, issued, cycled, seq,
                   granted>>

\* ++l->s.readers is not atomic: the load ...
wt_readlock_load(t) ==
    /\ pc[t] = "r_inc"
    /\ Goto(t, "r_store")
    /\ Local(t, ticket[t], [ZeroWord EXCEPT !.readers = l.readers], "none")
    /\ UNCHANGED <<l, ticketMod, issued, cycled, seq, granted>>

\* ... and the store; the function returns.
wt_readlock_store(t) ==
    /\ pc[t] = "r_store"
    /\ l' = [l EXCEPT !.readers = Inc16(snap[t].readers)]
    /\ Goto(t, "r_held")
    /\ Local(t, ticket[t], ZeroWord, "none")
    /\ Grant(t, seq[t])
    /\ UNCHANGED <<ticketMod, issued, cycled, seq>>

\* ------------------------------------------------------- __wt_readunlock
\* Faulty variants: the unlock bumps readers instead of writers; it bumps
\* both, as the write unlock does.
ReadUnlockNew_Readers(w) == [w EXCEPT !.readers = Inc16(w.readers)]
ReadUnlockNew_Both(w) ==
    [w EXCEPT !.writers = Inc16(w.writers), !.readers = Inc16(w.readers)]

\* (void)__wt_atomic_add16(&l->s.writers, 1)
ReadUnlockNew(w) == [w EXCEPT !.writers = Inc16(w.writers)]

wt_readunlock(t) ==
    /\ pc[t] = "r_held"
    /\ l' = ReadUnlockNew(l)
    /\ Goto(t, "idle")
    /\ Local(t, 0, ZeroWord, "none")
    /\ Leave(t)
    /\ UNCHANGED <<ticketMod, issued, cycled, granted>>

\* ---------------------------------------------------- __wt_try_writelock
\* Faulty variants of the cheap test: the readers' counter tested instead of
\* the writers', and a test of "nobody holds" (writers against readers).
TryWriteBusy_Readers(old) == old.readers # old.next
TryWriteBusy_Held(old) == old.writers # old.readers

\* The cheap test: TRUE when the call returns EBUSY without trying the CAS.
TryWriteBusy(old) == old.writers # old.next

\* Faulty variants: ++new.s.next forgotten; ++new.s.writers_active forgotten.
TryWriteNew_NoTicket(old) ==
    [old EXCEPT !.writers_active = Inc16(old.writers_active)]
TryWriteNew_NoActive(old) == [old EXCEPT !.next = Inc16(old.next)]

\* The replacement lock value.
TryWriteNew(old) ==
    [old EXCEPT !.next = Inc16(old.next),
                !.writers_active = Inc16(old.writers_active)]

wt_try_writelock_snapshot(t) ==
    /\ pc[t] = "idle"
    /\ IF TryWriteBusy(l)
         THEN /\ Goto(t, "idle")
              /\ Local(t, 0, ZeroWord, "try_write:EBUSY")
         ELSE /\ Goto(t, "tw_cas")
              /\ Local(t, 0, l, "none")
    /\ UNCHANGED <<l, ticketMod, issued, cycled, seq, granted>>

wt_try_writelock_cas(t) ==
    /\ pc[t] = "tw_cas"
    /\ IF l = snap[t]
         THEN /\ l' = TryWriteNew(snap[t])
              /\ Goto(t, "w_held")
              /\ Local(t, snap[t].next, ZeroWord, "try_write:0")
              /\ TakeTicket(t)
              /\ Grant(t, issued)
         ELSE /\ Goto(t, "idle")
              /\ Local(t, 0, ZeroWord, "try_write:EBUSY")
              /\ UNCHANGED <<l, issued, cycled, seq, granted>>
    /\ UNCHANGED ticketMod

\* -------------------------------------------------------- __wt_writelock
\* ticket = __wt_atomic_fetch_add16(&l->s.next, 1)
wt_writelock_ticket(t) ==
    /\ pc[t] = "idle"
    /\ l' = [l EXCEPT !.next = Inc16(l.next)]
    /\ Goto(t, "w_active")
    /\ Local(t, l.next, ZeroWord, "none")
    /\ TakeTicket(t)
    /\ UNCHANGED <<ticketMod, granted>>

\* (void)__wt_atomic_add16(&l->s.writers_active, 1)
wt_writelock_active(t) ==
    /\ pc[t] = "w_active"
    /\ l' = [l EXCEPT !.writers_active = Inc16(l.writers_active)]
    /\ Goto(t, "w_wait")
    /\ UNCHANGED <<ticket, snap, ret, ticketMod, issued, cycled, seq,
                   granted>>

\* Faulty variant: the writer waits on the readers' counter.
WriteServed_Readers(t) == ticket[t] = l.readers

\* The condition that ends the wait loop of __wt_writelock.
WriteServed(t) == ticket[t] = l.writers

\* for (pause_cnt = 0; ticket != l->s.writers;): the loop ends, the function
\* returns.
wt_writelock_wait(t) ==
    /\ pc[t] = "w_wait"
    /\ WriteServed(t)
    /\ Goto(t, "w_held")
    /\ Grant(t, seq[t])
    /\ UNCHANGED <<l, ticket, snap, ret, ticketMod, issued, cycled, seq>>

\* ------------------------------------------------------ __wt_writeunlock
\* (void)__wt_atomic_sub16(&l->s.writers_active, 1)
wt_writeunlock_active(t) ==
    /\ pc[t] = "w_held"
    /\ l' = [l EXCEPT !.writers_active = Dec16(l.writers_active)]
    /\ Goto(t, "wu_snap")
    /\ Local(t, ticket[t], ZeroWord, "none")
    /\ UNCHANGED <<ticketMod, issued, cycled, seq, granted>>

\* new = *l
wt_writeunlock_snapshot(t) ==
    /\ pc[t] = "wu_snap"
    /\ Goto(t, "wu_store")
    /\ Local(t, ticket[t], l, "none")
    /\ UNCHANGED <<l, ticketMod, issued, cycled, seq, granted>>

\* Faulty variant: the whole word of the snapshot is stored (l->u = new.u).
WriteUnlockNew_WholeWord(w, new) ==
    [new EXCEPT !.writers = Inc16(new.writers), !.readers = Inc16(new.readers)]

\* Faulty variant: the unlock forgets ++new.s.writers.
WriteUnlockNew_Readers(w, new) ==
    [w EXCEPT !.writers = new.writers, !.readers = Inc16(new.readers)]

\* ++new.s.writers; ++new.s.readers; l->i.wr = new.i.wr: the pair is stored,
\* next and writers_active are not.
WriteUnlockNew(w, new) ==
    [w EXCEPT !.writers = Inc16(new.writers), !.readers = Inc16(new.readers)]

wt_writeunlock_store(t) ==
    /\ pc[t] = "wu_store"
    /\ l' = WriteUnlockNew(l, snap[t])
    /\ Goto(t, "idle")
    /\ Local(t, 0, ZeroWord, "none")
    /\ Leave(t)
    /\ UNCHANGED <<ticketMod, issued, cycled, granted>>

\* --------------------------------------------------- __wt_rwlock_islocked
\* Faulty variant: only the readers' counter is compared.
wt_rwlock_islocked_Readers(w) == w.readers # w.next

wt_rwlock_islocked(w) == w.writers # w.next \/ w.readers # w.next

\* ------------------------------------------------------------------ Init
Init ==
    /\ wt_rwlock_init
    /\ pc = [t \in Procs |-> "idle"]
    /\ ticket = [t \in Procs |-> 0]
    /\ snap = [t \in Procs |-> ZeroWord]
    /\ ret = [t \in Procs |-> "none"]
    /\ ticketMod = TicketWrap
    /\ issued = 0
    /\ seq = [t \in Procs |-> 0]
    /\ granted = {}
    /\ cycled = {}

\* A call that may hand out a ticket starts only while tickets are left.
TicketsLeft == issued < MaxTickets

\* Every step of a thread but the first of an acquire: the rest of the
\* acquire, and the unlocks.
Proceed(t) ==
    \/ wt_try_readlock_cas(t)
    \/ wt_readlock_spin_cas(t)
    \/ wt_readlock_wait(t)
    \/ wt_readlock_load(t)
    \/ wt_readlock_store(t)
    \/ wt_readunlock(t)
    \/ wt_try_writelock_cas(t)
    \/ wt_writelock_active(t)
    \/ wt_writelock_wait(t)
    \/ wt_writeunlock_active(t)
    \/ wt_writeunlock_snapshot(t)
    \/ wt_writeunlock_store(t)

Next ==
    \E t \in Threads :
        \/ TicketsLeft /\ wt_try_readlock_snapshot(t)
        \/ TicketsLeft /\ wt_readlock_spin_snapshot(t)
        \/ TicketsLeft /\ wt_readlock_ticket(t)
        \/ TicketsLeft /\ wt_try_writelock_snapshot(t)
        \/ TicketsLeft /\ wt_writelock_ticket(t)
        \/ Proceed(t)

Spec == Init /\ [][Next]_vars

\* Every thread that is inside a call or holds the lock keeps running:
\* threads are scheduled fairly and a holder calls its unlock.
FairSpec == Spec /\ \A t \in Threads : WF_vars(Proceed(t))

\* ------------------------------------------------- narrow ticket fields
\* The same lock with ticket fields so narrow that the threads of the model
\* can have more tickets outstanding than the fields have values: the
\* fields count modulo NumThreads - 1 instead of modulo 64K.
InitWrap ==
    /\ wt_rwlock_init
    /\ pc = [t \in Procs |-> "idle"]
    /\ ticket = [t \in Procs |-> 0]
    /\ snap = [t \in Procs |-> ZeroWord]
    /\ ret = [t \in Procs |-> "none"]
    /\ ticketMod = NumThreads - 1
    /\ issued = 0
    /\ seq = [t \in Procs |-> 0]
    /\ granted = {}
    /\ cycled = {}

SpecWrap == InitWrap /\ [][Next]_vars

\* ------------------------------------------- the header's worked example
\* R: ticket 0, R: ticket 1, R: ticket 2, W: ticket 3 blocks, the three
\* readers unlock in any order, W is granted.  The readers acquire once each
\* (by any of the three read calls), the writer takes its ticket when all
\* three hold, and the readers unlock once the writer has its ticket.
ReadersLeft == issued < ExampleReaders
AllReading == \A r \in ExReaders : pc[r] = "r_held"
WriterQueued == pc[ExWriter] \in WriteWaiting

NextExample ==
    \/ \E t \in ExReaders :
        \/ ReadersLeft /\ wt_readlock_ticket(t)
        \/ ReadersLeft /\ wt_try_readlock_snapshot(t)
        \/ ReadersLeft /\ wt_readlock_spin_snapshot(t)
        \/ wt_try_readlock_cas(t)
        \/ wt_readlock_spin_cas(t)
        \/ wt_readlock_wait(t)
        \/ wt_readlock_load(t)
        \/ wt_readlock_store(t)
        \/ WriterQueued /\ wt_readunlock(t)
    \/ AllReading /\ wt_writelock_ticket(ExWriter)
    \/ wt_writelock_active(ExWriter)
    \/ wt_writelock_wait(ExWriter)

SpecExample == Init /\ [][NextExample]_vars

\* --------------------------------------------- round trips on an idle lock
\* write / write_unlock and try_write / write_unlock pairs, one at a time:
\* a call starts only when no other thread is inside a call or holds.
MaxRounds == 12

Alone(t) == \A u \in Procs \ {t} : pc[u] = "idle"
RoundsLeft == issued < MaxRounds

NextRoundTrip ==
    \E t \in Threads :
        \/ Alone(t) /\ RoundsLeft /\ wt_writelock_ticket(t)
        \/ Alone(t) /\ RoundsLeft /\ wt_try_writelock_snapshot(t)
        \/ wt_try_writelock_cas(t)
        \/ wt_writelock_active(t)
        \/ wt_writelock_wait(t)
        \/ wt_writeunlock_active(t)
        \/ wt_writeunlock_snapshot(t)
        \/ wt_writeunlock_store(t)

SpecRoundTrip == Init /\ [][NextRoundTrip]_vars

\* --------------------------------------- a second read by a read holder
\* The lock is not re-entrant, yet nothing in __wt_readlock keeps a thread
\* that holds a read lock from calling it again.  The positions of a thread
\* inside (or after) such a second call, its first read lock still held:
ReadAgain == {"rr_wait", "rr_inc", "rr_store", "rr_held"}

\* ticket = __wt_atomic_fetch_add16(&l->s.next, 1), by a read holder
wt_readlock_again_ticket(t) ==
    /\ pc[t] = "r_held"
    /\ l' = [l EXCEPT !.next = Inc16(l.next)]
    /\ Goto(t, "rr_wait")
    /\ Local(t, l.next, ZeroWord, "none")
    /\ TakeTicket(t)
    /\ UNCHANGED <<ticketMod, granted>>

\* the wait loop of the second call ends
wt_readlock_again_wait(t) ==
    /\ pc[t] = "rr_wait"
    /\ ReadServed(t)
    /\ Goto(t, "rr_inc")
    /\ UNCHANGED <<l, ticket, snap, ret, ticketMod, issued, cycled, seq,
                   granted>>

\* ++l->s.readers of the second call: the load ...
wt_readlock_again_load(t) ==
    /\ pc[t] = "rr_inc"
    /\ Goto(t, "rr_store")
    /\ Local(t, ticket[t], [ZeroWord EXCEPT !.readers = l.readers], "none")
    /\ UNCHANGED <<l, ticketMod, issued, cycled, seq, granted>>

\* ... and the store; the thread now holds two read locks.
wt_readlock_again_store(t) ==
    /\ pc[t] = "rr_store"
    /\ l' = [l EXCEPT !.readers = Inc16(snap[t].readers)]
    /\ Goto(t, "rr_held")
    /\ Local(t, ticket[t], ZeroWord, "none")
    /\ Grant(t, seq[t])
    /\ UNCHANGED <<ticketMod, issued, cycled, seq>>

\* __wt_readunlock of the second read lock; the first is still held.
wt_readunlock_again(t) ==
    /\ pc[t] = "rr_held"
    /\ l' = ReadUnlockNew(l)
    /\ Goto(t, "r_held")
    /\ Local(t, ticket[t], ZeroWord, "none")
    /\ UNCHANGED <<ticketMod, issued, cycled, seq, granted>>

\* Blocking calls only, and a read holder may call __wt_readlock again.
NextReentrant ==
    \E t \in Threads :
        \/ TicketsLeft /\ wt_readlock_ticket(t)
        \/ TicketsLeft /\ wt_readlock_again_ticket(t)
        \/ TicketsLeft /\ wt_writelock_ticket(t)
        \/ wt_readlock_wait(t)
        \/ wt_readlock_load(t)
        \/ wt_readlock_store(t)
        \/ wt_readlock_again_wait(t)
        \/ wt_readlock_again_load(t)
        \/ wt_readlock_again_store(t)
        \/ wt_readunlock_again(t)
        \/ wt_readunlock(t)
        \/ wt_writelock_active(t)
        \/ wt_writelock_wait(t)
        \/ wt_writeunlock_active(t)
        \/ wt_writeunlock_snapshot(t)
        \/ wt_writeunlock_store(t)

SpecReentrant == Init /\ [][NextReentrant]_vars

\* ------------------------------------------------------------ type check
TypeOK ==
    /\ l \in [writers : 0 .. ticketMod - 1, readers : 0 .. ticketMod - 1,
              next : 0 .. ticketMod - 1, writers_active : 0 .. ticketMod - 1]
    /\ \A t \in Procs : pc[t] \in HasTicket \cup ReadAgain \cup
           {"idle", "tr_cas", "rs_try", "rs_cas", "tw_cas"}
    /\ granted \subseteq 0 .. issued
    /\ cycled \subseteq (0 .. issued) \X BOOLEAN

\* ================================================================ claims

\* Threads that have a ticket whose unlock has not completed (queued or
\* holding), and writers among them.
Outstanding(t) == pc[t] \in HasTicket
WriterOutstanding(t) == pc[t] \in WriteWaiting \cup WriteHeld

\* C1. Mutual exclusion: in every reachable state at most one thread holds
\* the write lock, and no thread holds a read lock while a thread holds the
\* write lock (a thread holds from the return of its acquire to the last
\* store of its unlock).
C1_MutualExclusion ==
    \A t, u \in Threads :
        (t # u /\ HoldsWrite(t)) => ~Holds(u)

\* A writer holds while a reader and another writer wait behind it.
C1_Witness ==
    \E t, u, v \in Threads :
        /\ pc[t] = "w_held"
        /\ pc[u] = "r_wait"
        /\ pc[v] = "w_wait"

\* C2. FIFO: the tickets whose acquire has returned are always a prefix of
\* the tickets issued (a ticket is never granted before an earlier one), and
\* nobody whose ticket was issued after a writer's ticket holds the lock
\* until that writer has completed write_unlock.
C2_FIFO ==
    /\ \A s \in granted : \A r \in 0 .. s - 1 : r \in granted
    /\ \A w, u \in Threads :
           (WriterOutstanding(w) /\ Outstanding(u) /\ seq[u] > seq[w])
               => ~Holds(u)

\* A reader holds, a writer waits behind it, a reader waits behind the writer.
C2_Witness ==
    \E r, w, u \in Threads :
        /\ pc[r] = "r_held"
        /\ pc[w] = "w_wait"
        /\ pc[u] = "r_wait"
        /\ seq[r] < seq[w]
        /\ seq[w] < seq[u]

\* C3. Starvation freedom: under fair scheduling, with every holder calling
\* its unlock, every read or write that has taken its ticket is eventually
\* granted.
C3_StarvationFree ==
    \A t \in Threads :
        (pc[t] \in ReadWaiting \cup WriteWaiting) ~> Holds(t)

\* A blocking write was granted its ticket after two earlier tickets, with
\* a reader queued behind it.
C3_Witness ==
    \E t, u \in Threads :
        /\ pc[t] = "w_held"
        /\ ret[t] = "none"
        /\ seq[t] >= 2
        /\ pc[u] \in ReadWaiting

\* C4. try_write whose snapshot is taken while another thread holds the lock
\* or has an ungranted ticket returns EBUSY there and then: it acquires
\* nothing and leaves the lock as it was.
C4_TryWriteBusy ==
    [][\A t \in Threads :
          ((\E u \in Threads \ {t} : Outstanding(u))
              /\ wt_try_writelock_snapshot(t))
          => /\ pc'[t] = "idle"
             /\ ret'[t] = "try_write:EBUSY"
             /\ l' = l
             /\ issued' = issued]_vars

\* try_write returned EBUSY while readers hold the lock.
C4_Witness ==
    \E t, u \in Threads :
        /\ pc[t] = "idle"
        /\ ret[t] = "try_write:EBUSY"
        /\ pc[u] = "r_held"

\* C5. try_read whose snapshot is taken while a writer holds the lock or has
\* an ungranted ticket (also one queued behind readers that hold) returns
\* EBUSY there and then: it acquires nothing and leaves the lock as it was.
C5_TryReadBusy ==
    [][\A t \in Threads :
          ((\E w \in Threads \ {t} : WriterOutstanding(w))
              /\ wt_try_readlock_snapshot(t))
          => /\ pc'[t] = "idle"
             /\ ret'[t] = "try_read:EBUSY"
             /\ l' = l
             /\ issued' = issued]_vars

\* try_read returned EBUSY with a writer queued behind a reader that holds.
C5_Witness ==
    \E t, w, r \in Threads :
        /\ pc[t] = "idle"
        /\ ret[t] = "try_read:EBUSY"
        /\ pc[w] = "w_wait"
        /\ pc[r] = "r_held"

\* C6. Reader concurrency: while no writer holds or has a ticket, waiting
\* readers are served without any read_unlock: every ticket between readers
\* and a waiting reader's ticket belongs to a reader that is being granted,
\* and the reader whose ticket is readers can leave its wait loop.
NoWriterOutstanding == \A t \in Threads : ~WriterOutstanding(t)

C6_ReaderConcurrency ==
    NoWriterOutstanding =>
        /\ \A t \in Threads :
               pc[t] \in ReadWaiting =>
                   /\ l.readers <= ticket[t]
                   /\ \A s \in l.readers .. ticket[t] - 1 :
                          \E u \in Threads :
                              pc[u] \in ReadWaiting /\ ticket[u] = s
        /\ (\E t \in Threads : pc[t] \in ReadWaiting) =>
               \E t \in Threads :
                   \/ pc[t] = "r_wait" /\ ReadServed(t)
                   \/ pc[t] \in {"r_inc", "r_store"}

\* Every thread holds the read lock at once.
C6_Witness == \A t \in Threads : pc[t] = "r_held"

\* C7. The worked example: with the writer's ticket 3 taken behind three
\* readers, readers stays 3, writers counts the read_unlocks done, and the
\* writer can leave its wait loop exactly when all three are done; it holds
\* only after the third, whatever the order of the unlocks.
Released == {r \in ExReaders : pc[r] = "idle"}

C7_ExampleGrant ==
    pc[ExWriter] \in WriteWaiting \cup {"w_held"} =>
        /\ ticket[ExWriter] = ExampleReaders
        /\ l.readers = ExampleReaders
        /\ l.writers = Cardinality(Released)
        /\ pc[ExWriter] = "w_wait" =>
               (WriteServed(ExWriter) <=> Released = ExReaders)
        /\ pc[ExWriter] = "w_held" => Released = ExReaders

\* The writer of the example was granted.
C7_Witness == pc[ExWriter] = "w_held" /\ Released = ExReaders

\* C8 (as amended). When the example's writer is granted, writers = 3 and
\* readers = 3 (its ticket), and next = 4: the writer's own ticket was taken.
C8_ExampleState ==
    pc[ExWriter] = "w_held" =>
        /\ l.writers = ExampleReaders
        /\ l.readers = ExampleReaders
        /\ l.next = ExampleReaders + 1

\* C8 as stated: writers = next = 3 and readers = 3 at the grant.
C8_Original ==
    pc[ExWriter] = "w_held" =>
        /\ l.writers = ExampleReaders
        /\ l.readers = ExampleReaders
        /\ l.next = ExampleReaders

\* The example's writer holds with ticket 3.
C8_Witness == pc[ExWriter] = "w_held" /\ ticket[ExWriter] = ExampleReaders

\* C9. Round trip: with write / write_unlock and try_write / write_unlock
\* pairs run one at a time on an otherwise idle lock, a write finds its
\* ticket served at its first check of writers, and a try_write passes its
\* test, wins its CAS and never returns EBUSY.
C9_RoundTrip ==
    \A t \in Threads :
        /\ pc[t] = "w_wait" => WriteServed(t)
        /\ pc[t] = "tw_cas" => l = snap[t]
        /\ ret[t] # "try_write:EBUSY"

\* A try_write succeeded after two completed pairs.
C9_Witness ==
    \E t \in Threads :
        /\ pc[t] = "w_held"
        /\ ret[t] = "try_write:0"
        /\ ticket[t] >= 2

\* C10 (as amended). is_locked is true exactly while some ticket is
\* outstanding: from the moment a thread takes a ticket (granted or not)
\* until its unlock has completed.
C10_IsLocked ==
    wt_rwlock_islocked(l) <=> \E t \in Threads : Outstanding(t)

\* C10 as stated: is_locked is true exactly while some thread is between a
\* successful acquire and the completion of its unlock.
C10_Original ==
    wt_rwlock_islocked(l) <=> \E t \in Threads : Holds(t)

\* is_locked is true although nobody holds: a read has its ticket and waits.
C10_Witness ==
    /\ wt_rwlock_islocked(l)
    /\ \E t \in Threads : pc[t] = "r_wait"
    /\ \A t \in Threads : ~Holds(t)

\* C11. Counter ordering: writers <= next and readers <= next in every
\* reachable state (tickets counted without wraparound).
C11_CounterOrder ==
    /\ l.writers <= l.next
    /\ l.readers <= l.next

\* The three counters are all different: a reader was served and released,
\* a reader holds, a ticket waits.
C11_Witness ==
    /\ 0 < l.writers
    /\ l.writers < l.readers
    /\ l.readers < l.next

\* C12. Free states: writers = next exactly when no ticket is outstanding
\* (nobody holds, nobody waits); readers = next exactly when no writer holds
\* or waits and no reader that has taken its ticket waits to be granted.
C12_FreeState ==
    /\ (l.writers = l.next) <=> (\A t \in Threads : ~Outstanding(t))
    /\ (l.readers = l.next) <=>
           (\A t \in Threads :
                ~WriterOutstanding(t) /\ pc[t] \notin ReadWaiting)

\* Free for the next reader and not for the next writer: two readers hold.
C12_Witness ==
    /\ l.readers = l.next
    /\ l.writers # l.next
    /\ \E t, u \in Threads : t # u /\ pc[t] = "r_held" /\ pc[u] = "r_held"

\* C14. No race on the plain updates: from the moment a blocking reader has
\* seen readers = ticket to its store, readers is still its ticket (and the
\* value it loaded); from write_unlock's snapshot to its store, writers and
\* readers are still the values of the snapshot.
C14_RaceFree ==
    \A t \in Threads :
        /\ pc[t] = "r_inc" => l.readers = ticket[t]
        /\ pc[t] = "r_store" =>
               /\ l.readers = ticket[t]
               /\ snap[t].readers = l.readers
        /\ pc[t] = "wu_store" =>
               /\ snap[t].writers = l.writers
               /\ snap[t].readers = l.readers

\* A write_unlock is between its snapshot and its store while a reader and a
\* writer wait behind it.
C14_Witness ==
    \E t, u, v \in Threads :
        /\ pc[t] = "wu_store"
        /\ pc[u] = "r_wait"
        /\ pc[v] = "w_wait"

\* C16. A try call that returns EBUSY (at its test or at its CAS) never
\* wrote the lock word; a try call that succeeds changes it in the one step
\* of its CAS: try_read makes readers and next the old next + 1, try_write
\* adds 1 to next and to writers_active, and the other fields stay.
TryStep(t) ==
    \/ wt_try_readlock_snapshot(t)
    \/ wt_try_readlock_cas(t)
    \/ wt_try_writelock_snapshot(t)
    \/ wt_try_writelock_cas(t)

C16_TryEffect ==
    [][\A t \in Threads :
          TryStep(t) =>
              /\ ret'[t] \in {"try_read:EBUSY", "try_write:EBUSY", "none"}
                     => l' = l
              /\ ret'[t] = "try_read:0" =>
                     /\ l'.readers = Inc16(l.next)
                     /\ l'.next = Inc16(l.next)
                     /\ l'.writers = l.writers
                     /\ l'.writers_active = l.writers_active
              /\ ret'[t] = "try_write:0" =>
                     /\ l'.next = Inc16(l.next)
                     /\ l'.writers_active = Inc16(l.writers_active)
                     /\ l'.writers = l.writers
                     /\ l'.readers = l.readers]_vars

\* A try_read succeeded and holds; a try_write returned EBUSY.
C16_Witness ==
    \E t, u \in Threads :
        /\ pc[t] = "r_held"
        /\ ret[t] = "try_read:0"
        /\ pc[u] = "idle"
        /\ ret[u] = "try_write:EBUSY"

\* C17 (as amended). writers_active is the number of writers between their
\* increment (the atomic add that follows write's ticket, or try_write's
\* CAS) and the decrement that is write_unlock's first step.
C17_WritersActive ==
    l.writers_active =
        Cardinality({t \in Threads : pc[t] \in {"w_wait", "w_held"}})

\* C17 as stated: writers_active is the number of writers that have taken a
\* ticket and have not completed write_unlock.
C17_Original ==
    l.writers_active = Cardinality({t \in Threads : WriterOutstanding(t)})

\* A writer holds and is counted; another has its ticket and is not yet
\* counted.
C17_Witness ==
    \E t, u \in Threads :
        /\ pc[t] = "w_held"
        /\ pc[u] = "w_active"
        /\ l.writers_active = 1

\* C18. write_unlock never changes next and changes writers_active only by
\* its decrement, so next always is the number of tickets issued: a ticket
\* taken between the snapshot and the store is not lost or issued again.
C18_UnlockFrame ==
    /\ [](l.next = issued % ticketMod)
    /\ [][\A t \in Threads :
             /\ wt_writeunlock_active(t) =>
                    /\ l'.next = l.next
                    /\ l'.writers_active = Dec16(l.writers_active)
             /\ wt_writeunlock_snapshot(t) => l' = l
             /\ wt_writeunlock_store(t) =>
                    /\ l'.next = l.next
                    /\ l'.writers_active = l.writers_active]_vars

\* A write_unlock is about to store, and since its snapshot a ticket was
\* taken and a writer counted itself in writers_active.
C18_Witness ==
    \E t \in Threads :
        /\ pc[t] = "wu_store"
        /\ snap[t].next # l.next
        /\ snap[t].writers_active # l.writers_active

\* C19. Holder accounting: writers <= readers, readers - writers is the
\* number of threads that hold a read lock, and while a writer holds,
\* readers = writers = its ticket.
C19_HolderCount ==
    /\ l.writers <= l.readers
    /\ l.readers - l.writers =
           Cardinality({t \in Threads : HoldsRead(t)})
    /\ \A t \in Threads :
           HoldsWrite(t) => l.readers = ticket[t] /\ l.writers = ticket[t]

\* Two readers hold after an earlier holder released.
C19_Witness ==
    /\ l.writers >= 1
    /\ l.readers - l.writers = 2
    /\ Cardinality({t \in Threads : HoldsRead(t)}) = 2

\* C20. Quiescence: when no thread is inside a call or holds the lock,
\* writers = readers = next and writers_active = 0, is_locked is false and
\* the tests of try_read and try_write pass; writers_active never wraps
\* below zero (it never exceeds the number of threads).
Quiescent == \A t \in Threads : pc[t] = "idle"

C20_Quiescent ==
    /\ l.writers_active <= Cardinality(Threads)
    /\ Quiescent =>
           /\ l.writers = l.next
           /\ l.readers = l.next
           /\ l.writers_active = 0
           /\ ~wt_rwlock_islocked(l)
           /\ ~TryReadBusy(l)
           /\ ~TryWriteBusy(l)

\* The lock is quiescent again after three tickets were served.
C20_Witness == Quiescent /\ issued >= 3 /\ l.writers = l.next

\* C13. Wraparound: with ticket fields that wrap while requests are
\* outstanding, a state is reached in which a writer holds the lock together
\* with another holder, the two having the same ticket number a full cycle
\* of next apart, the earlier one a blocking request that was still waiting
\* when the later one took its ticket; and mutual exclusion is broken only
\* after some ticket number was handed out while a thread with the same
\* number had not completed its unlock.
C13_WrapHazard == C1_MutualExclusion \/ cycled # {}

\* A writer holds together with another holder that has the same ticket
\* number, taken a full cycle earlier by a blocking request that was still
\* waiting when the number was handed out again.
C13_Witness ==
    \E t, u \in Threads :
        /\ t # u
        /\ HoldsWrite(t)
        /\ Holds(u)
        /\ ticket[t] = ticket[u]
        /\ seq[t] = seq[u] + ticketMod
        /\ <<seq[u], TRUE>> \in cycled

\* The second read of r waits behind the ticket of writer w, and w waits
\* for the unlock of the read lock that r holds.
Deadlock(r, w) ==
    /\ pc[r] = "rr_wait"
    /\ pc[w] \in WriteWaiting
    /\ seq[w] < seq[r]

\* C15. Re-entrancy deadlock: once a read holder has called the blocking
\* read again after a writer took its ticket, neither wait loop can end
\* (the reader's ticket is not readers, the writer's is not writers), and
\* no step of any thread changes that: the two wait for each other for ever.
C15_ReentrantDeadlock ==
    [][\A r, w \in Threads :
          Deadlock(r, w) =>
              /\ ~ReadServed(r)
              /\ ~WriteServed(w)
              /\ Deadlock(r, w)']_vars

\* The deadlocked state: the writer spins in its wait loop and the read
\* holder spins in the wait loop of its second call.
C15_Witness ==
    \E r, w \in Threads :
        /\ Deadlock(r, w)
        /\ pc[w] = "w_wait"
        /\ l.writers_active = 1

====
